---------------------------- MODULE Spec2Model ----------------------------
(***************************************************************************)
(* Opportunity discovery and lifecycle pipeline of the WinScope platform.  *)
(*                                                                         *)
(* The model follows                                                       *)
(*   winscope-platform/winscope_master_orchestrator.py  (pipeline, store,  *)
(*       learning ledger)                                                  *)
(*   winscope-platform/winscope_intelligence_network.py (identity,         *)
(*       deduplication, ranking, scheduling, scoring, scrapers,            *)
(*       scrape_all_portals, run_continuous)                               *)
(*   winscope-platform/winscope_api.py (scan and processing jobs)          *)
(*   winscope-platform/winscope_document_intelligence.py                   *)
(*       (process_solicitation)                                            *)
(*                                                                         *)
(* run_pipeline_cycle binds `scored` to the empty list (line 548) in place *)
(* of the two calls it keeps as comments (lines 544-545):                  *)
(*     scrape_all_portals() and score_opportunities().                     *)
(* The model takes the list those two calls return, which is also what     *)
(* winscope_api.run_portal_scan (lines 145-148) feeds to its own filter.   *)
(*                                                                         *)
(* Specifications:                                                         *)
(*   Spec         run_pipeline_cycle and the calls on the pipeline store   *)
(*   SpecDedup    _deduplicate on the flattened candidates of one cycle    *)
(*   SpecExtract  the scrapers over successive fetches                     *)
(*   SpecNet      run_continuous of the network: scrape_all_portals, the   *)
(*                scrapers as tasks of asyncio.gather, scoring, sleeping   *)
(*   SpecNetFair  SpecNet with the event loop running whatever can run     *)
(*   SpecSched    PortalConfig.should_scrape on drawn configurations       *)
(*   SpecApi      winscope_api.py: scan and processing jobs as background  *)
(*                tasks over opportunities_cache and processing_status     *)
(*   SpecStore    run_pipeline_cycle with a database write that can fail   *)
(*                and the process starting again                           *)
(*   SpecScore    OpportunityScorer.score_opportunity on drawn inputs      *)
(*   SpecRank     score_opportunities: the ranking of scored opportunities *)
(*   SpecLimit    run_pipeline_cycle with more qualifying opportunities    *)
(*                than max_concurrent_processing                           *)
(*   SpecLearn    LearningEngine.get_automation_success_rate on drawn rows *)
(*   SpecDoc      process_solicitation on drawn packages of files          *)
(***************************************************************************)
EXTENDS Integers, Sequences, FiniteSets, TLC

VARIABLES
    now,               \* the wall clock read by datetime.now(), in ticks
                       \* (TickHours hours each in the discovery loop)
    pc,                \* position of run_pipeline_cycle
    scored,            \* run_pipeline_cycle: the list `scored`
    qualified,         \* run_pipeline_cycle: the list `qualified`
    queue,             \* what is left of qualified[:max_concurrent_processing]
    record,            \* _process_opportunity: the local `record` (<<>> when none)
    pipeline,          \* self.pipeline : dict id -> OpportunityRecord
    db,                \* rows of the table `opportunities` (opportunities.db)
    win_loss_history,  \* rows of the table `win_loss_history` (learning.db)
    npc,               \* position of the discovery code (scrape_all_portals, run_continuous)
    today,             \* the day datetime.now() falls on, as an index into Days
    fetched,           \* the listings the portals showed, in the order of all_opportunities
    all_opportunities, \* scrape_all_portals: the list `all_opportunities`
    unique_opportunities, \* scrape_all_portals: what _deduplicate returned
    ingested,          \* every (listing, id) pair the scrapers have produced so far
    portals,           \* self.portals : name -> PortalConfig
    tasks,             \* scrape_all_portals: the coroutines handed to asyncio.gather
    errors,            \* the "Scraping error" lines the cycle has logged
    opportunities,     \* self.opportunities of WinScopeIntelligenceNetwork
    attempts,          \* history: the fetches of each portal that have resolved
    save_failed,       \* history: id -> the cycle in which its last save raised
    calls,             \* history: the calls of should_scrape and what they returned
    opportunities_cache, \* winscope_api.py: the global opportunities_cache
    processing_status, \* winscope_api.py: the global processing_status
    jobs,              \* winscope_api.py: the background tasks that are running
    sc_opp,            \* score_opportunity: the opportunity being scored
    sc_score,          \* score_opportunity: what it assigned to match_score
    automation_metrics, \* rows of the table `automation_metrics` (learning.db)
    success_rate,      \* get_automation_success_rate: the stage asked and the value returned
    files,             \* process_solicitation: what download_package returned
    package            \* process_solicitation: the SolicitationPackage returned

pipelineVars == <<pc, scored, qualified, queue, record, pipeline, db,
                  win_loss_history, save_failed>>

networkVars == <<npc, today, fetched, all_opportunities, unique_opportunities,
                 ingested, portals, tasks, errors, opportunities, attempts>>

schedVars == <<calls>>

apiVars == <<opportunities_cache, processing_status, jobs>>

scoreVars == <<sc_opp, sc_score>>

learnVars == <<automation_metrics, success_rate>>

docVars == <<files, package>>

extraVars == <<schedVars, apiVars, scoreVars, learnVars, docVars>>

vars == <<now, pipelineVars, networkVars, extraVars>>

---------------------------------------------------------------------------
(* Bounds of the model.                                                    *)

\* the clock stops after this many ticks (one tick per cycle)
MaxNow == 2

\* longest list of raw candidates one discovery step returns
MaxBatch == 2

---------------------------------------------------------------------------
(* Program constants.                                                      *)

\* self.config['min_match_score']
MinMatchScore == 50

\* self.config['max_concurrent_processing']
MaxConcurrentProcessing == 5

---------------------------------------------------------------------------
(* OpportunityStage, in the order of the enum.                             *)

Stages ==
    <<"discovered", "scored", "qualified", "documents_downloaded",
      "data_extracted", "rfq_generated", "rfq_sent", "quotes_received",
      "proposal_generated", "proposal_submitted", "won", "lost", "no_bid">>

StageSet == {Stages[i] : i \in 1..Len(Stages)}

\* position of a stage in the enum
StageIndex(s) == CHOOSE i \in 1..Len(Stages) : Stages[i] = s

\* the declared lifecycle graph
StageEdges ==
    {<<"discovered", "scored">>, <<"scored", "qualified">>,
     <<"qualified", "no_bid">>, <<"qualified", "documents_downloaded">>,
     <<"documents_downloaded", "data_extracted">>,
     <<"data_extracted", "rfq_generated">>, <<"rfq_generated", "rfq_sent">>,
     <<"rfq_sent", "quotes_received">>,
     <<"quotes_received", "proposal_generated">>,
     <<"proposal_generated", "proposal_submitted">>,
     <<"proposal_submitted", "won">>, <<"proposal_submitted", "lost">>}

Terminal == {"won", "lost", "no_bid"}

---------------------------------------------------------------------------
(* Sources, references and identities.                                     *)

Portals == {"SAM.gov", "California eProcure"}

SolNums == {"AB-100"}

\* the match scores the scorer hands out in the model, in points
Scores == {MinMatchScore - 1, MinMatchScore, MinMatchScore + 1}

\* hashlib.md5(s.encode()).hexdigest()[:16], tabulated on the strings that
\* the portals, the reference numbers and the scrapers of the model give
Md5Hex16(s) ==
    CASE s = "SAM.gov_AB-100" -> "4e212f307ed7cccc"
      [] s = "California eProcure_AB-100" -> "9df2d72d08888d9e"
      [] s = "SAM.gov_" -> "ddb2805155e5315c"
      [] s = "California eProcure_CA-20251201-0" -> "81999dc18e08e81b"
      [] s = "California eProcure_CA-20251201-1" -> "3bfa436b29681809"
      [] s = "California eProcure_CA-20251201-2" -> "8d65b609212568ca"
      [] s = "California eProcure_CA-20251202-0" -> "0dc2e2f088d88eee"
      [] s = "California eProcure_CA-20251202-1" -> "57c4fd50ba04eaa7"
      [] s = "California eProcure_CA-20251202-2" -> "6b0394415e496180"

\* Opportunity.generate_id
generate_id(source_portal, solicitation_number) ==
    Md5Hex16(source_portal \o "_" \o solicitation_number)

\* Opportunity(id="", ...) after __post_init__, with the score the scorer
\* will give it
Opportunity(p, s, sc) ==
    [id |-> generate_id(p, s), source_portal |-> p,
     solicitation_number |-> s, match_score |-> sc]

Candidates == {Opportunity(p, s, sc) : p \in Portals, s \in SolNums, sc \in Scores}

Ids == {c.id : c \in Candidates}

SeqsUpTo(S, n) == UNION {[1..k -> S] : k \in 0..n}


---------------------------------------------------------------------------
(* WinScopeIntelligenceNetwork: what the discovery step returns.           *)

RECURSIVE DedupFromNoAdd(_, _)
\* the loop of _deduplicate without seen_ids.add(opp.id)
DedupFromNoAdd(opps, seen) ==
    IF opps = <<>> THEN <<>>
    ELSE IF Head(opps).id \in seen
         THEN DedupFromNoAdd(Tail(opps), seen)
         ELSE <<Head(opps)>> \o DedupFromNoAdd(Tail(opps), seen)

RECURSIVE DedupFrom(_, _)
\* the loop of _deduplicate: `seen` is seen_ids, the result is what is
\* appended to unique_opportunities from `opps` on
DedupFrom(opps, seen) ==
    IF opps = <<>> THEN <<>>
    ELSE IF Head(opps).id \in seen
         THEN DedupFrom(Tail(opps), seen)
         ELSE <<Head(opps)>> \o DedupFrom(Tail(opps), seen \cup {Head(opps).id})

\* WinScopeIntelligenceNetwork._deduplicate
deduplicate(opps) == DedupFrom(opps, {})

RECURSIVE InsertByScore(_, _)
\* one step of the stable sort by match_score, highest first
InsertByScore(o, sorted) ==
    IF sorted = <<>> THEN <<o>>
    ELSE IF Head(sorted).match_score >= o.match_score
         THEN <<Head(sorted)>> \o InsertByScore(o, Tail(sorted))
         ELSE <<o>> \o sorted

RECURSIVE SortByScore(_)
\* scored.sort(key=lambda x: x.match_score, reverse=True); equal scores keep
\* their order
SortByScore(opps) ==
    IF opps = <<>> THEN <<>>
    ELSE InsertByScore(opps[Len(opps)],
                       SortByScore(SubSeq(opps, 1, Len(opps) - 1)))

\* WinScopeIntelligenceNetwork.score_opportunities
score_opportunities(opps) == SortByScore(opps)

---------------------------------------------------------------------------
(* WinScopeMasterOrchestrator: pure parts.                                 *)

\* a threshold that lets an opportunity through only above the minimum
qualify_opportunities_strict(opps) ==
    SelectSeq(opps, LAMBDA o : o.match_score > MinMatchScore)

\* WinScopeMasterOrchestrator._qualify_opportunities
qualify_opportunities(opps) ==
    SelectSeq(opps, LAMBDA o : o.match_score >= MinMatchScore)

\* qualified[:self.config['max_concurrent_processing']]
FirstN(s, n) == SubSeq(s, 1, IF Len(s) < n THEN Len(s) ELSE n)

\* OpportunityRecord(...) as _process_opportunity builds it at time t; the
\* fields it does not pass take the defaults of the dataclass
NewRecord(opp, t) ==
    [id |-> opp.id,
     solicitation_number |-> opp.solicitation_number,
     source_portal |-> opp.source_portal,
     stage |-> "qualified",
     match_score |-> opp.match_score,
     discovered_at |-> t,
     qualified_at |-> t,
     submitted_at |-> 0,
     bid_decision |-> "pending",
     bid_decision_reason |-> "",
     manual_interventions |-> <<>>,
     proposal_document_path |-> ""]

\* the row _save_opportunity_record writes for `rec` at time t
Row(rec, t) ==
    [id |-> rec.id, stage |-> rec.stage, match_score |-> rec.match_score,
     created_at |-> rec.discovered_at, updated_at |-> t]

\* an INSERT into a table that has no key on id
save_opportunity_record_nokey(rows, rec, t) == rows \cup {Row(rec, t)}

\* WinScopeMasterOrchestrator._save_opportunity_record: INSERT OR REPLACE on
\* a table whose PRIMARY KEY is id
save_opportunity_record(rows, rec, t) ==
    {r \in rows : r.id # rec.id} \cup {Row(rec, t)}

\* WinScopeMasterOrchestrator._get_opportunities_by_stage, as the ids of the
\* records it returns
get_opportunities_by_stage(stage) ==
    {k \in DOMAIN pipeline : pipeline[k].stage = stage}

\* self.pipeline[rec.id] = rec
PipelinePut(rec) ==
    [k \in DOMAIN pipeline \cup {rec.id} |->
        IF k = rec.id THEN rec ELSE pipeline[k]]

\* LearningEngine.record_win_loss: a plain INSERT into a table whose PRIMARY
\* KEY is id; a second row of the same id raises sqlite3.IntegrityError and
\* the table stays as it was
record_win_loss(rows, rec) ==
    IF \E r \in rows : r.id = rec.id
    THEN rows
    ELSE rows \cup {[id |-> rec.id, actual_result |-> rec.stage,
                     match_score |-> rec.match_score]}


---------------------------------------------------------------------------
(* What the portals show, and what the scrapers make of it.                *)

\* most listings one portal shows in one fetch
MaxRows == 2

\* the days datetime.now().strftime('%Y%m%d') gives in the model
Days == <<"20251201", "20251202">>

\* reference numbers a listing can carry; "" is a listing that carries none
References == {"", "AB-100"}

Titles == {"T1", "T2"}

\* response deadlines a listing can carry; 0 is a listing that carries none
\* (due_date is None)
DueDates == {0, 1}

\* a JSON null, None in Python
None == "None"

\* the values of "naicsCode" in a listing of the SAM.gov API
NaicsCodes == {"541330", None}

\* CaliforniaEProcureScraper: self.config.naics_codes, one of them
ConfigNaics == "541330"

\* one listing as its portal shows it
Listings ==
    [portal : Portals, reference : References, title : Titles,
     due_date : DueDates, naicsCode : NaicsCodes]

\* Opportunity(id="", ...) after __post_init__, as a scraper builds it from
\* listing l under the solicitation number s
ScrapedOpportunity(s, l, naics) ==
    [id |-> generate_id(l.portal, s), source_portal |-> l.portal,
     solicitation_number |-> s, title |-> l.title, due_date |-> l.due_date,
     naics_codes |-> <<naics>>, match_score |-> 0]

\* SAMGovScraper._parse_sam_opportunity:
\* solicitation_number = data.get("solicitationNumber", "")
parse_sam_opportunity(data) ==
    ScrapedOpportunity(data.reference, data, data.naicsCode)

\* the loop of SAMGovScraper.scrape (lines 661-664) over
\* data.get("opportunitiesData", [])
ParseSam(rows) == [i \in 1..Len(rows) |-> parse_sam_opportunity(rows[i])]

\* CaliforniaEProcureScraper._extract_opportunities, one row, on day `day`
\* with n opportunities already in the list: the solicitation number is the
\* text of span.solicitation-number when the detail page has one, and
\* f"CA-{datetime.now().strftime('%Y%m%d')}-{len(opportunities)}" otherwise
extract_row(row, day, n) ==
    ScrapedOpportunity(
        IF row.reference # "" THEN row.reference
        ELSE "CA-" \o Days[day] \o "-" \o ToString(n),
        row, ConfigNaics)

\* CaliforniaEProcureScraper._extract_opportunities: every row has a title
\* element, so every row is appended
extract_opportunities(rows, day) ==
    [i \in 1..Len(rows) |-> extract_row(rows[i], day, i - 1)]

\* what scraper.scrape() returns for portal p showing `rows` on day `day`
ScrapeRows(p, rows, day) ==
    IF p = "SAM.gov" THEN ParseSam(rows) ELSE extract_opportunities(rows, day)

\* the elements of a list
Range(s) == {s[i] : i \in DOMAIN s}

---------------------------------------------------------------------------
(* PortalRegistry and PortalConfig.                                        *)

\* three of the portals PortalRegistry.get_all_portals lists, in its order:
\* the two that have a scraper of their own and one that falls to the base
\* class PortalScraper
NetPortals == <<"SAM.gov", "DIBBS Marketplace", "California eProcure">>

PortalNames == Range(NetPortals)

\* PortalConfig.scrape_frequency_hours, as the registry sets it
ScrapeFrequencyHours(p) ==
    CASE p = "SAM.gov" -> 6
      [] p = "DIBBS Marketplace" -> 12
      [] p = "California eProcure" -> 12

\* last_scrape of a portal that has not been scraped (None)
Never == -1

\* hours the clock of the discovery loop advances in one tick
TickHours == 6

\* PortalConfig of portal p after __init__ of the network
PortalConfig(p, sam_api_key) ==
    [scrape_frequency_hours |-> ScrapeFrequencyHours(p),
     api_key |-> IF p = "SAM.gov" THEN sam_api_key ELSE None,
     last_scrape |-> Never,
     success_rate |-> 1,
     avg_opportunities_per_scrape |-> 0]

\* should_scrape with `>= 5` in the place of `> 5`
should_scrape_ge5(cfg, t) ==
    IF cfg.last_scrape = Never THEN TRUE
    ELSE LET hours_since_scrape == (t - cfg.last_scrape) * TickHours
             frequency2 ==
                 IF cfg.avg_opportunities_per_scrape >= 5
                 THEN cfg.scrape_frequency_hours
                 ELSE IF cfg.avg_opportunities_per_scrape < 1
                      THEN cfg.scrape_frequency_hours * 4
                      ELSE cfg.scrape_frequency_hours * 2
         IN  2 * hours_since_scrape >= frequency2

\* PortalConfig.should_scrape at tick t; both sides of the comparison are
\* doubled, so that scrape_frequency_hours * 0.5 stays an integer
should_scrape(cfg, t) ==
    IF cfg.last_scrape = Never THEN TRUE
    ELSE LET hours_since_scrape == (t - cfg.last_scrape) * TickHours
             frequency2 ==
                 IF cfg.avg_opportunities_per_scrape > 5
                 THEN cfg.scrape_frequency_hours
                 ELSE IF cfg.avg_opportunities_per_scrape < 1
                      THEN cfg.scrape_frequency_hours * 4
                      ELSE cfg.scrape_frequency_hours * 2
         IN  2 * hours_since_scrape >= frequency2

---------------------------------------------------------------------------
(* State after WinScopeMasterOrchestrator.__init__ and                     *)
(* LearningEngine.__init__ on empty databases.                             *)

PipelineInit ==
    /\ pc = "idle"
    /\ scored = <<>>
    /\ qualified = <<>>
    /\ queue = <<>>
    /\ record = <<>>
    /\ pipeline = <<>>
    /\ db = {}
    /\ win_loss_history = {}
    /\ save_failed = <<>>

\* State after WinScopeIntelligenceNetwork.__init__(anthropic_api_key,
\* sam_api_key): every portal of the registry has never been scraped, and
\* SAM.gov carries the key that was passed
NetworkInit(sam_api_key) ==
    /\ npc = "idle"
    /\ today = 1
    /\ fetched = <<>>
    /\ all_opportunities = <<>>
    /\ unique_opportunities = <<>>
    /\ ingested = {}
    /\ portals = [p \in PortalNames |-> PortalConfig(p, sam_api_key)]
    /\ tasks = <<>>
    /\ errors = <<>>
    /\ opportunities = <<>>
    /\ attempts = [p \in PortalNames |-> <<>>]

\* no call of should_scrape has been recorded; the module globals of
\* winscope_api.py, lines 80-82; no opportunity is being scored
RestInit ==
    /\ automation_metrics = <<>>
    /\ success_rate = <<>>
    /\ files = <<>>
    /\ package = <<>>

ExtraInit ==
    /\ RestInit
    /\ calls = <<>>
    /\ opportunities_cache = <<>>
    /\ processing_status = <<>>
    /\ jobs = <<>>
    /\ sc_opp = <<>>
    /\ sc_score = <<>>

Init ==
    /\ now = 0
    /\ PipelineInit
    /\ NetworkInit("")
    /\ ExtraInit

---------------------------------------------------------------------------
(* run_pipeline_cycle, step by step.  The coroutine never yields to the    *)
(* event loop between its first and its last line, so nothing else runs     *)
(* while pc # "idle".                                                      *)

\* Steps 1 and 2: discovery (scrape_all_portals, which ends with
\* _deduplicate, then score_opportunities) and _qualify_opportunities
CycleStart ==
    /\ pc = "idle"
    /\ now < MaxNow
    /\ \E raw \in SeqsUpTo(Candidates, MaxBatch) :
          LET sc == score_opportunities(deduplicate(raw))
              q  == qualify_opportunities(sc)
          IN  /\ scored' = sc
              /\ qualified' = q
              /\ queue' = FirstN(q, MaxConcurrentProcessing)
    /\ now' = now + 1
    /\ pc' = "process"
    /\ UNCHANGED <<record, pipeline, db, win_loss_history>>
    /\ UNCHANGED <<save_failed, networkVars, extraVars>>

\* _process_opportunity, lines 587-605: record = OpportunityRecord(...,
\* stage=QUALIFIED, ..., qualified_at=datetime.now())
ProcessCreate ==
    /\ pc = "process"
    /\ record = <<>>
    /\ queue # <<>>
    /\ record' = <<NewRecord(Head(queue), now)>>
    /\ UNCHANGED <<now, pc, scored, qualified, queue, pipeline, db, win_loss_history>>
    /\ UNCHANGED <<save_failed, networkVars, extraVars>>

\* _process_opportunity, line 619: record.stage = DATA_EXTRACTED
ProcessExtract ==
    /\ pc = "process"
    /\ record # <<>>
    /\ record[1].stage = "qualified"
    /\ record' = <<[record[1] EXCEPT !.stage = "data_extracted"]>>
    /\ UNCHANGED <<now, pc, scored, qualified, queue, pipeline, db, win_loss_history>>
    /\ UNCHANGED <<save_failed, networkVars, extraVars>>

\* _process_opportunity, line 629: record.stage = RFQ_GENERATED.  Nothing in
\* the try block (two assignments and a log call) raises, so the handler of
\* lines 633-635 is never entered.
ProcessRfq ==
    /\ pc = "process"
    /\ record # <<>>
    /\ record[1].stage = "data_extracted"
    /\ record' = <<[record[1] EXCEPT !.stage = "rfq_generated"]>>
    /\ UNCHANGED <<now, pc, scored, qualified, queue, pipeline, db, win_loss_history>>
    /\ UNCHANGED <<save_failed, networkVars, extraVars>>

\* _process_opportunity, lines 637-639: _save_opportunity_record(record) and
\* self.pipeline[record.id] = record
ProcessSave ==
    /\ pc = "process"
    /\ record # <<>>
    /\ record[1].stage = "rfq_generated"
    /\ db' = save_opportunity_record(db, record[1], now)
    /\ pipeline' = PipelinePut(record[1])
    /\ record' = <<>>
    /\ queue' = Tail(queue)
    /\ save_failed' = [id \in DOMAIN save_failed \ {record[1].id} |->
                          save_failed[id]]
    /\ UNCHANGED <<now, pc, scored, qualified, win_loss_history>>
    /\ UNCHANGED <<networkVars, extraVars>>

\* the loop of step 3 has run out
ProcessDone ==
    /\ pc = "process"
    /\ record = <<>>
    /\ queue = <<>>
    /\ pc' = "proposals"
    /\ UNCHANGED <<now, scored, qualified, queue, record, pipeline, db, win_loss_history>>
    /\ UNCHANGED <<save_failed, networkVars, extraVars>>

\* _generate_proposal_for_opportunity on one record: `ok` tells whether the
\* try block ran to its end (writing the proposal file can raise OSError, and
\* the handler of lines 669-670 leaves the record as it was)
generate_proposal_for_opportunity(rec, ok) ==
    IF ok
    THEN [rec EXCEPT !.proposal_document_path = "proposal.txt",
                     !.stage = "proposal_generated"]
    ELSE rec

\* Steps 4 and 5: _generate_proposal_for_opportunity for every record that
\* _get_opportunities_by_stage(QUOTES_RECEIVED) returns, then the metrics
\* are logged and the coroutine returns (its locals are gone)
GenerateProposals ==
    /\ pc = "proposals"
    /\ \E done \in SUBSET get_opportunities_by_stage("quotes_received") :
          pipeline' = [k \in DOMAIN pipeline |->
              IF k \in get_opportunities_by_stage("quotes_received")
              THEN generate_proposal_for_opportunity(pipeline[k], k \in done)
              ELSE pipeline[k]]
    /\ scored' = <<>>
    /\ qualified' = <<>>
    /\ pc' = "idle"
    /\ UNCHANGED <<now, queue, record, db, win_loss_history>>
    /\ UNCHANGED <<save_failed, networkVars, extraVars>>

---------------------------------------------------------------------------
(* Calls from outside the cycle.                                           *)

\* advanceStage(id, newStage, metadata).  The repository has no method for
\* it: OpportunityRecord is a plain mutable dataclass and the caller assigns
\* record.stage.  The model lets the caller take one edge of the declared
\* graph at a time, and nothing else.
advanceStage(id, newStage) ==
    /\ pc = "idle"
    /\ id \in DOMAIN pipeline
    /\ <<pipeline[id].stage, newStage>> \in StageEdges
    /\ pipeline' = [pipeline EXCEPT ![id].stage = newStage]
    /\ UNCHANGED <<now, pc, scored, qualified, queue, record, db, win_loss_history>>
    /\ UNCHANGED <<save_failed, networkVars, extraVars>>

AdvanceStage == \E id \in Ids, s \in StageSet : advanceStage(id, s)

\* LearningEngine.record_win_loss(record), called for a record whose outcome
\* is known.  No line of the repository calls it.
RecordWinLoss ==
    /\ pc = "idle"
    /\ \E id \in DOMAIN pipeline :
          /\ pipeline[id].stage \in {"won", "lost"}
          /\ win_loss_history' = record_win_loss(win_loss_history, pipeline[id])
    /\ UNCHANGED <<now, pc, scored, qualified, queue, record, pipeline, db>>
    /\ UNCHANGED <<save_failed, networkVars, extraVars>>

Next ==
    \/ CycleStart
    \/ ProcessCreate
    \/ ProcessExtract
    \/ ProcessRfq
    \/ ProcessSave
    \/ ProcessDone
    \/ GenerateProposals
    \/ AdvanceStage
    \/ RecordWinLoss

Spec == Init /\ [][Next]_vars

---------------------------------------------------------------------------
(* _deduplicate on the candidates of one call of scrape_all_portals.       *)

\* the listings of portal p that carry a NAICS code
ListingsOf(p) == {l \in Listings : l.portal = p /\ l.naicsCode = ConfigNaics}

\* gather has returned: SAM.gov showed `sam`, California eProcure showed `ca`,
\* and the results were flattened in the order of self.portals
InitDedup ==
    /\ now = 0
    /\ PipelineInit
    /\ npc = "flattened"
    /\ today = 1
    /\ \E sam \in SeqsUpTo(ListingsOf("SAM.gov"), MaxRows),
          ca \in SeqsUpTo(ListingsOf("California eProcure"), MaxRows) :
          /\ fetched = sam \o ca
          /\ all_opportunities
                = ScrapeRows("SAM.gov", sam, today)
                     \o ScrapeRows("California eProcure", ca, today)
    /\ unique_opportunities = <<>>
    /\ ingested = {}
    /\ portals = [p \in PortalNames |-> PortalConfig(p, "")]
    /\ tasks = <<>>
    /\ errors = <<>>
    /\ opportunities = <<>>
    /\ attempts = [p \in PortalNames |-> <<>>]
    /\ ExtraInit

\* scrape_all_portals, line 759:
\* all_opportunities = self._deduplicate(all_opportunities)
Deduplicate ==
    /\ npc = "flattened"
    /\ unique_opportunities' = deduplicate(all_opportunities)
    /\ npc' = "deduplicated"
    /\ UNCHANGED <<now, pipelineVars, extraVars, attempts, today, fetched, all_opportunities,
                   ingested, portals, tasks, errors, opportunities>>

NextDedup == Deduplicate

SpecDedup == InitDedup /\ [][NextDedup]_vars

---------------------------------------------------------------------------
(* The scrapers over several fetches: which identity a listing gets.       *)

\* one call of scraper.scrape() on portal p that gets the listings `rows`,
\* on the day the clock shows or a later one
ScrapeOnce ==
    /\ npc = "idle"
    /\ now < MaxNow
    /\ \E p \in Portals, d \in today..Len(Days) :
          \E rows \in SeqsUpTo(ListingsOf(p), MaxRows) :
              LET opps == ScrapeRows(p, rows, d)
              IN  /\ today' = d
                  /\ fetched' = rows
                  /\ all_opportunities' = opps
                  /\ ingested' = ingested \cup
                        {[listing |-> rows[i], id |-> opps[i].id, at |-> now + 1]
                            : i \in DOMAIN rows}
    /\ now' = now + 1
    /\ UNCHANGED <<pipelineVars, extraVars, attempts, npc, unique_opportunities, portals, tasks,
                   errors, opportunities>>

NextExtract == ScrapeOnce

SpecExtract == Init /\ [][NextExtract]_vars


---------------------------------------------------------------------------
(* WinScopeIntelligenceNetwork.run_continuous: one discovery cycle after   *)
(* another.  A task of `tasks` is one coroutine scrape_portal(portal) that  *)
(* asyncio.gather runs: `state` is where it stands, `batch` the list it     *)
(* returned, `error` the exception it raised, and `failed` tells whether    *)
(* the fetch failed to get the listings of its portal.                     *)

Running == [state |-> "running", batch |-> <<>>, error |-> "", failed |-> FALSE]

Returned(batch, failed) ==
    [state |-> "returned", batch |-> batch, error |-> "", failed |-> failed]

Raised(error) ==
    [state |-> "raised", batch |-> <<>>, error |-> error, failed |-> TRUE]

\* a task whose await never completes
Hung == [state |-> "hung", batch |-> <<>>, error |-> "", failed |-> TRUE]

\* the tasks gather has started and that have not resolved
InFlight == {p \in DOMAIN tasks : tasks[p].state \in {"running", "hung"}}

\* the batches a portal can show in one cycle of the discovery loop
NetBatches(p) ==
    SeqsUpTo({l \in Listings : /\ l.portal = p
                               /\ l.reference = "AB-100"
                               /\ l.title = "T1"
                               /\ l.due_date = 0
                               /\ (p = "SAM.gov" \/ l.naicsCode = ConfigNaics)}, 1)

\* self.config.last_scrape = datetime.now();
\* self.config.avg_opportunities_per_scrape = len(opportunities)
RecordScrape(p, batch) ==
    [portals EXCEPT ![p].last_scrape = now,
                    ![p].avg_opportunities_per_scrape = Len(batch)]

RECURSIVE FlattenFrom(_, _)
\* the loop of scrape_all_portals, lines 751-754, from the i-th portal on:
\* the results gather returns are in the order of the tasks, which is the
\* order of self.portals
FlattenFrom(ts, i) ==
    IF i > Len(NetPortals) THEN <<>>
    ELSE (IF NetPortals[i] \in DOMAIN ts /\ ts[NetPortals[i]].state = "returned"
          THEN ts[NetPortals[i]].batch ELSE <<>>) \o FlattenFrom(ts, i + 1)

\* scrape_all_portals, lines 751-754
Flatten(ts) == FlattenFrom(ts, 1)

RECURSIVE LoggedFrom(_, _)
\* the loop of scrape_all_portals, lines 755-756, from the i-th portal on:
\* logger.error(f"Scraping error: {result}")
LoggedFrom(ts, i) ==
    IF i > Len(NetPortals) THEN <<>>
    ELSE (IF NetPortals[i] \in DOMAIN ts /\ ts[NetPortals[i]].state = "raised"
          THEN <<ts[NetPortals[i]].error>> ELSE <<>>) \o LoggedFrom(ts, i + 1)

\* OpportunityScorer._score_naics_match on naics_codes = [None]: the list is
\* not empty, None equals no code of the profile, and on[:4] raises TypeError
score_raises(opp) == \E i \in DOMAIN opp.naics_codes : opp.naics_codes[i] = None

\* asyncio.wait(..., return_when=FIRST_COMPLETED) in the place of gather
gather_first_completed(ts) ==
    DOMAIN ts = {} \/ \E p \in DOMAIN ts : ts[p].state \in {"returned", "raised"}

\* scrape_all_portals, line 748: `await asyncio.gather(*tasks,
\* return_exceptions=True)` returns once every coroutine has returned or
\* raised
gather(ts) == \A p \in DOMAIN ts : ts[p].state \in {"returned", "raised"}

\* every portal is scraped, whatever should_scrape says
DuePortalsAll(cfgs, t) == DOMAIN cfgs

\* scrape_all_portals, lines 743-745: the portals the loop creates a
\* coroutine for
DuePortals(cfgs, t) == {q \in DOMAIN cfgs : should_scrape(cfgs[q], t)}

InitNet ==
    /\ now = 0
    /\ PipelineInit
    /\ \E sam_api_key \in {"", "key"} : NetworkInit(sam_api_key)
    /\ ExtraInit

\* scrape_all_portals, lines 742-748: a coroutine for every portal whose
\* should_scrape() is true, all of them handed to asyncio.gather at once
StartCycle ==
    /\ npc = "idle"
    /\ now < MaxNow
    /\ tasks' = [p \in DuePortals(portals, now) |-> Running]
    /\ npc' = "gather"
    /\ UNCHANGED <<now, pipelineVars, extraVars, attempts, today, fetched, all_opportunities,
                   unique_opportunities, ingested, portals, errors,
                   opportunities>>

\* the part of a task step that every scraper shares
Resolve(p, result, cfg) ==
    /\ npc = "gather"
    /\ p \in DOMAIN tasks
    /\ tasks[p].state = "running"
    /\ tasks' = [tasks EXCEPT ![p] = result]
    /\ portals' = cfg
    /\ attempts' = [attempts EXCEPT
                       ![p] = Append(@, [at |-> now, failed |-> result.failed])]
    /\ UNCHANGED <<now, pipelineVars, extraVars, npc, today, fetched, all_opportunities,
                   unique_opportunities, ingested, errors, opportunities>>

\* PortalScraper.scrape, the scraper of every portal that has none of its
\* own: raise NotImplementedError
GenericScrape ==
    /\ npc = "gather"
    /\ \E p \in PortalNames \ {"SAM.gov", "California eProcure"} :
          Resolve(p, Raised("NotImplementedError"), portals)

\* SAMGovScraper.scrape, lines 643-645: no API key, the empty list is
\* returned before anything is recorded
SamNoKey ==
    /\ portals["SAM.gov"].api_key = ""
    /\ Resolve("SAM.gov", Returned(<<>>, TRUE), portals)

\* SAMGovScraper.scrape, status 200: the listings are parsed and returned
SamScrape ==
    /\ portals["SAM.gov"].api_key # ""
    /\ \E rows \in NetBatches("SAM.gov") :
          LET batch == ScrapeRows("SAM.gov", rows, today)
          IN  Resolve("SAM.gov", Returned(batch, FALSE),
                      RecordScrape("SAM.gov", batch))

\* SAMGovScraper.scrape, another status or an exception of the request
\* (lines 665-669): it is logged, and the empty list is returned
SamScrapeFails ==
    /\ portals["SAM.gov"].api_key # ""
    /\ Resolve("SAM.gov", Returned(<<>>, TRUE), RecordScrape("SAM.gov", <<>>))

\* CaliforniaEProcureScraper.scrape: the results table is extracted
CaScrape ==
    /\ npc = "gather"
    /\ \E rows \in NetBatches("California eProcure") :
          LET batch == ScrapeRows("California eProcure", rows, today)
          IN  Resolve("California eProcure", Returned(batch, FALSE),
                      RecordScrape("California eProcure", batch))

\* CaliforniaEProcureScraper.scrape, lines 520-521: an exception inside the
\* try block is logged, and the empty list is returned
CaScrapeFails ==
    /\ npc = "gather"
    /\ Resolve("California eProcure", Returned(<<>>, TRUE),
               RecordScrape("California eProcure", <<>>))

\* CaliforniaEProcureScraper.scrape, lines 500-502: async_playwright(),
\* chromium.launch and new_page are outside the try block, so what they
\* raise leaves the coroutine
CaLaunchFails ==
    /\ npc = "gather"
    /\ Resolve("California eProcure", Raised("Error"), portals)

\* CaliforniaEProcureScraper.scrape: an await of the browser that never
\* completes; nothing in scrape or in scrape_all_portals bounds it with a
\* timeout (no asyncio.wait_for, no timeout argument of gather)
CaHangs ==
    /\ npc = "gather"
    /\ Resolve("California eProcure", Hung, portals)

\* scrape_all_portals, lines 748-761, once gather has returned: the results
\* are flattened, the exceptions logged, the list deduplicated
GatherReturns ==
    /\ npc = "gather"
    /\ gather(tasks)
    /\ all_opportunities' = Flatten(tasks)
    /\ errors' = LoggedFrom(tasks, 1)
    /\ unique_opportunities' = deduplicate(Flatten(tasks))
    /\ npc' = "scraped"
    /\ UNCHANGED <<now, pipelineVars, extraVars, attempts, today, fetched, ingested, portals,
                   tasks, opportunities>>

\* run_continuous, lines 803-810: score_opportunities gives every
\* opportunity its match_score and sorts, self.opportunities is extended
ScoreAndStore ==
    /\ npc = "scraped"
    /\ unique_opportunities # <<>>
    /\ \A i \in DOMAIN unique_opportunities :
          ~ score_raises(unique_opportunities[i])
    /\ \E sc \in [DOMAIN unique_opportunities -> Scores] :
          opportunities' = opportunities \o
              score_opportunities(
                  [i \in DOMAIN unique_opportunities |->
                      [unique_opportunities[i] EXCEPT !.match_score = sc[i]]])
    /\ npc' = "sleep"
    /\ UNCHANGED <<now, pipelineVars, extraVars, attempts, today, fetched, all_opportunities,
                   unique_opportunities, ingested, portals, tasks, errors>>

\* run_continuous, lines 820-822: score_one raised, gather (called without
\* return_exceptions) passes the exception on, and the handler of the loop
\* logs it; nothing of the cycle is stored
ScoreRaises ==
    /\ npc = "scraped"
    /\ \E i \in DOMAIN unique_opportunities :
          score_raises(unique_opportunities[i])
    /\ errors' = Append(errors, "Error in main loop")
    /\ npc' = "sleep"
    /\ UNCHANGED <<now, pipelineVars, extraVars, attempts, today, fetched, all_opportunities,
                   unique_opportunities, ingested, portals, tasks,
                   opportunities>>

\* run_continuous, line 803: `if new_opportunities:` is false
NothingNew ==
    /\ npc = "scraped"
    /\ unique_opportunities = <<>>
    /\ npc' = "sleep"
    /\ UNCHANGED <<now, pipelineVars, extraVars, attempts, today, fetched, all_opportunities,
                   unique_opportunities, ingested, portals, tasks, errors,
                   opportunities>>

\* run_continuous, lines 817-818 and 822: asyncio.sleep returns and the loop
\* starts over; the locals of the cycle are gone
Sleep ==
    /\ npc = "sleep"
    /\ now' = now + 1
    /\ npc' = "idle"
    /\ tasks' = <<>>
    /\ all_opportunities' = <<>>
    /\ unique_opportunities' = <<>>
    /\ errors' = <<>>
    /\ UNCHANGED <<pipelineVars, extraVars, attempts, today, fetched, ingested, portals,
                   opportunities>>

NextNet ==
    \/ StartCycle
    \/ GenericScrape
    \/ SamNoKey
    \/ SamScrape
    \/ SamScrapeFails
    \/ CaScrape
    \/ CaScrapeFails
    \/ CaLaunchFails
    \/ CaHangs
    \/ GatherReturns
    \/ ScoreAndStore
    \/ ScoreRaises
    \/ NothingNew
    \/ Sleep

SpecNet == InitNet /\ [][NextNet]_vars

\* the event loop runs every coroutine that can take a step
SpecNetFair == SpecNet /\ WF_vars(NextNet)

---------------------------------------------------------------------------
(* Properties of the pipeline record state machine.                        *)

\* the stages of the pursuit branch that come after Qualified
AfterQualified ==
    {"documents_downloaded", "data_extracted", "rfq_generated", "rfq_sent",
     "quotes_received", "proposal_generated", "proposal_submitted", "won",
     "lost"}

\* the step that stores the record of an identity that already has one
ReIngest(id) ==
    /\ id \in DOMAIN pipeline
    /\ record # <<>>
    /\ record[1].id = id
    /\ record' = <<>>

\* C1: over any sequence of cycles and stage operations, the stage index of
\* the record kept for an identity never decreases, unless the step appends
\* an entry to the record's manual-intervention log.
C1_StageNeverDecreases ==
    [][\A id \in DOMAIN pipeline :
          /\ id \in DOMAIN pipeline'
          /\ (StageIndex(pipeline'[id].stage) < StageIndex(pipeline[id].stage)
                => Len(pipeline'[id].manual_interventions)
                      > Len(pipeline[id].manual_interventions))]_vars

\* C2: re-ingesting an opportunity whose identity already has a record
\* leaves the record's stage, its stage timestamps (discovered_at,
\* qualified_at, submitted_at), its bid decision and its manual-intervention
\* log unchanged.
C2_ReIngestKeepsHistory ==
    [][\A id \in DOMAIN pipeline :
          ReIngest(id) =>
              /\ pipeline'[id].stage = pipeline[id].stage
              /\ pipeline'[id].discovered_at = pipeline[id].discovered_at
              /\ pipeline'[id].qualified_at = pipeline[id].qualified_at
              /\ pipeline'[id].submitted_at = pipeline[id].submitted_at
              /\ pipeline'[id].bid_decision = pipeline[id].bid_decision
              /\ pipeline'[id].manual_interventions
                    = pipeline[id].manual_interventions]_vars

\* C3: every change of a record's stage, on the record being processed and
\* on the records of the store, follows one edge of the declared graph; no
\* stage is skipped.
C3_StageChangesFollowEdges ==
    [][/\ (record # <<>> /\ record' # <<>> /\ record'[1].stage # record[1].stage)
            => <<record[1].stage, record'[1].stage>> \in StageEdges
       /\ \A id \in DOMAIN pipeline :
             (id \in DOMAIN pipeline' /\ pipeline'[id].stage # pipeline[id].stage)
                => <<pipeline[id].stage, pipeline'[id].stage>> \in StageEdges]_vars

\* C4: Won, Lost and NoBid are absorbing: once the record of an identity is
\* in one of them, no later step changes its stage.
C4_TerminalStagesAbsorbing ==
    [][\A id \in DOMAIN pipeline :
          pipeline[id].stage \in Terminal
             => /\ id \in DOMAIN pipeline'
                /\ pipeline'[id].stage = pipeline[id].stage]_vars

C6_QualifiedIffAtLeastThreshold ==
    /\ pc # "idle" =>
          \A i \in DOMAIN scored :
              /\ (\E j \in DOMAIN qualified : qualified[j] = scored[i])
                    <=> scored[i].match_score >= MinMatchScore
              /\ scored[i].match_score = MinMatchScore
                    => \E j \in DOMAIN qualified : qualified[j] = scored[i]
              /\ scored[i].match_score = MinMatchScore - 1
                    => ~ \E j \in DOMAIN qualified : qualified[j] = scored[i]
    /\ record # <<>> => record[1].match_score >= MinMatchScore
    /\ \A id \in DOMAIN pipeline : pipeline[id].match_score >= MinMatchScore

\* C6, witness: one cycle gets an opportunity scoring exactly the threshold
\* and one scoring a point less; the first is being processed as Qualified,
\* the second is not among the qualified ones.
C6_Witness ==
    /\ pc = "process"
    /\ record # <<>>
    /\ record[1].stage = "qualified"
    /\ record[1].match_score = MinMatchScore
    /\ \E i \in DOMAIN scored :
          /\ scored[i].match_score = MinMatchScore - 1
          /\ ~ \E j \in DOMAIN qualified : qualified[j] = scored[i]

\* C7: at the end of the processing step of a cycle, every opportunity of
\* the cycle that scored below the threshold is in the store with stage
\* Scored, where get-by-identity and list-by-stage find it.
C7_BelowThresholdKeptAsScored ==
    pc = "proposals" =>
        \A i \in DOMAIN scored :
            scored[i].match_score < MinMatchScore
                => /\ scored[i].id \in DOMAIN pipeline
                   /\ scored[i].id \in get_opportunities_by_stage("scored")

\* C8: every record in a stage after Qualified has bid_decision 'go', every
\* record in NoBid has a non-empty reason, and no record with bid_decision
\* 'pending' is in a stage later than Qualified.
C8_LeavesQualifiedByDecision ==
    \A id \in DOMAIN pipeline :
        /\ pipeline[id].stage \in AfterQualified
              => pipeline[id].bid_decision = "go"
        /\ pipeline[id].stage = "no_bid"
              => pipeline[id].bid_decision_reason # ""
        /\ pipeline[id].bid_decision = "pending"
              => pipeline[id].stage \notin AfterQualified \cup {"no_bid"}

\* C9: the store holds at most one record per identity, in the in-memory
\* pipeline (each record is kept under its own id) and in the opportunities
\* table (no two rows share an id).
C9_OneRecordPerIdentity ==
    /\ \A k \in DOMAIN pipeline : pipeline[k].id = k
    /\ \A a, b \in db : a.id = b.id => a = b
    /\ \A k \in DOMAIN pipeline : Cardinality({r \in db : r.id = k}) = 1

\* C9, witness: an identity whose outcome was recorded in an earlier cycle
\* has been processed and saved again in the last cycle.
C9_Witness ==
    \E r \in win_loss_history :
        /\ r.id \in DOMAIN pipeline
        /\ pipeline[r.id].stage = "rfq_generated"
        /\ \E row \in db : row.id = r.id /\ row.updated_at > 1

\* C10: two candidates of one cycle that carry the same reference number
\* get the same identity, so what deduplication returns holds one
\* opportunity per reference number.
C10_SameReferenceCollapses ==
    \A i, j \in DOMAIN scored :
        scored[i].solicitation_number = scored[j].solicitation_number
            => /\ scored[i].id = scored[j].id
               /\ i = j

---------------------------------------------------------------------------
(* Properties of identity and deduplication.                               *)

\* the list s read in the order f, a permutation of its positions
Permuted(s, f) == [i \in DOMAIN s |-> s[f[i]]]

\* the position in all_opportunities of the earliest candidate of identity id
Earliest(id) ==
    CHOOSE i \in DOMAIN all_opportunities :
        /\ all_opportunities[i].id = id
        /\ \A k \in 1..(i - 1) : all_opportunities[k].id # id

\* C11: two candidates of one cycle that both lack a reference number and
\* differ in title get different identities, and deduplication keeps both.
C11_NoReferenceDistinctIdentity ==
    npc = "deduplicated" =>
        \A i, j \in DOMAIN fetched :
            (/\ i # j
             /\ fetched[i].reference = ""
             /\ fetched[j].reference = ""
             /\ fetched[i].title # fetched[j].title)
                => /\ all_opportunities[i].id # all_opportunities[j].id
                   /\ all_opportunities[i] \in Range(unique_opportunities)
                   /\ all_opportunities[j] \in Range(unique_opportunities)

\* C12: a listing that is ingested again by a later fetch gets the identity
\* it got before, whatever the day of the fetch and its position in the
\* batch.
C12_ReIngestSameIdentity ==
    \A a, b \in ingested :
        (a.listing = b.listing /\ a.at # b.at) => a.id = b.id

\* C13: deduplication does not depend on the order of the candidates: every
\* permutation of the list gives the same set of opportunities, field by
\* field.
C13_DedupOrderIndependent ==
    npc = "deduplicated" =>
        \A f \in Permutations(DOMAIN all_opportunities) :
            Range(deduplicate(Permuted(all_opportunities, f)))
                = Range(unique_opportunities)

\* C14: deduplication is idempotent: deduplicating its own output, or the
\* candidate list concatenated with itself, gives what deduplicating the
\* list once gives.
C14_DedupIdempotent ==
    npc = "deduplicated" =>
        /\ deduplicate(unique_opportunities) = unique_opportunities
        /\ deduplicate(all_opportunities \o all_opportunities)
              = unique_opportunities

\* C14, witness: the list had two candidates of one identity that differ in
\* a field and a candidate of another identity, and deduplication dropped
\* the later of the two.
C14_Witness ==
    /\ npc = "deduplicated"
    /\ Len(unique_opportunities) >= 2
    /\ \E i, j \in DOMAIN all_opportunities :
          /\ i < j
          /\ all_opportunities[i].id = all_opportunities[j].id
          /\ all_opportunities[i] # all_opportunities[j]
          /\ all_opportunities[j] \notin Range(unique_opportunities)

\* C15: when candidates of equal identity are merged, a due date that the
\* earliest candidate lacks and a later one carries is in the merged
\* opportunity, and a due date the earliest candidate carries is kept.
C15_MergeFillsMissingFields ==
    npc = "deduplicated" =>
        \A j \in DOMAIN all_opportunities :
            LET i == Earliest(all_opportunities[j].id)
                m == CHOOSE u \in Range(unique_opportunities) :
                        u.id = all_opportunities[j].id
            IN  /\ \E u \in Range(unique_opportunities) :
                      u.id = all_opportunities[j].id
                /\ (all_opportunities[i].due_date = 0
                    /\ all_opportunities[j].due_date # 0) => m.due_date # 0
                /\ all_opportunities[i].due_date # 0
                      => m.due_date = all_opportunities[i].due_date

---------------------------------------------------------------------------
(* Properties of the discovery cycle.                                      *)

\* the opportunities the cycle that has just ended appended to
\* self.opportunities, given that it appended its whole scored list
StoredThisCycle ==
    SubSeq(opportunities, Len(opportunities) - Len(unique_opportunities) + 1,
           Len(opportunities))

\* C16: after any number of discovery cycles, the accumulated collection
\* self.opportunities holds at most one entry per identity.
C16_OneEntryPerIdentity ==
    \A i, j \in DOMAIN opportunities :
        opportunities[i].id = opportunities[j].id => i = j

\* C17: when a cycle has ended, every candidate returned by a source whose
\* fetch succeeded is in the aggregated output of the cycle (itself or a
\* candidate of the same identity) and has been scored in that cycle.
C17_SucceededSourcesAreScored ==
    npc = "sleep" =>
        \A p \in DOMAIN tasks :
            (tasks[p].state = "returned" /\ ~ tasks[p].failed) =>
                \A k \in DOMAIN tasks[p].batch :
                    /\ \E u \in Range(unique_opportunities) :
                          u.id = tasks[p].batch[k].id
                    /\ Len(opportunities) >= Len(unique_opportunities)
                    /\ \E o \in Range(StoredThisCycle) :
                          /\ o.id = tasks[p].batch[k].id
                          /\ o.match_score \in Scores

\* C18: when gather has returned, the cycle has reported one error per
\* failed source, and no failed source stands as a task that returned a
\* list.
C18_OneErrorPerFailedSource ==
    npc = "scraped" =>
        /\ Len(errors) = Cardinality({p \in DOMAIN tasks : tasks[p].failed})
        /\ \A p \in DOMAIN tasks : tasks[p].failed => tasks[p].state # "returned"

\* C19: every cycle that has started its fetches reaches the end of the
\* cycle (scoring done or skipped), also when a fetch never returns.
C19_CycleTerminates == (npc = "gather") ~> (npc = "sleep")

\* C20: at every moment the number of fetches in flight is below the number
\* of configured sources.
C20_InFlightBelowSources == Cardinality(InFlight) < Len(NetPortals)

---------------------------------------------------------------------------
(* PortalConfig.should_scrape as a function of the configuration and of    *)
(* the clock.                                                              *)

\* the calls of should_scrape a run records
MaxCalls == 2

\* the ticks the clock can show when should_scrape is called
MaxElapsed == 5

\* values of avg_opportunities_per_scrape: it is len(opportunities) of the
\* last scrape, on both sides of the two thresholds of should_scrape
Yields == {0, 1, 5, 6}

\* a call of should_scrape that stamps the portal
should_scrape_touch(cfg, t) == [cfg EXCEPT !.last_scrape = t]

\* the PortalConfig after should_scrape has returned: lines 77-92 assign to
\* no attribute of self
should_scrape_self(cfg, t) == cfg

\* one portal has been scraped at some tick up to now, with some yield, or
\* none has
InitSched ==
    /\ now \in 0..MaxElapsed
    /\ PipelineInit
    /\ npc = "idle"
    /\ today = 1
    /\ fetched = <<>>
    /\ all_opportunities = <<>>
    /\ unique_opportunities = <<>>
    /\ ingested = {}
    /\ \E q \in PortalNames, last \in {Never} \cup 0..now, avg \in Yields :
          /\ last = Never => avg = 0
          /\ portals = [p \in PortalNames |->
                            IF p = q
                            THEN [PortalConfig(p, "") EXCEPT
                                     !.last_scrape = last,
                                     !.avg_opportunities_per_scrape = avg]
                            ELSE PortalConfig(p, "")]
    /\ tasks = <<>>
    /\ errors = <<>>
    /\ opportunities = <<>>
    /\ attempts = [p \in PortalNames |-> <<>>]
    /\ ExtraInit

\* portal.should_scrape() on one portal, lines 77-92
ShouldScrape ==
    /\ Len(calls) < MaxCalls
    /\ \E p \in PortalNames :
          /\ calls' = Append(calls, [portal |-> p, at |-> now,
                                     result |-> should_scrape(portals[p], now)])
          /\ portals' = [portals EXCEPT ![p] = should_scrape_self(portals[p], now)]
    /\ UNCHANGED <<now, pipelineVars, npc, today, fetched, all_opportunities,
                   unique_opportunities, ingested, tasks, errors,
                   opportunities, attempts, apiVars, scoreVars,
                   learnVars, docVars>>

NextSched == ShouldScrape

SpecSched == InitSched /\ [][NextSched]_vars

---------------------------------------------------------------------------
(* winscope_api.py: the endpoints scan_portals and process_opportunity and *)
(* the background tasks they start.  The tasks are coroutines of one event  *)
(* loop: each runs from one await to the next without interruption, and    *)
(* several can be waiting at the same time.  The clock counts seconds.     *)

\* the background tasks a run starts
MaxJobs == 3

\* run_portal_scan, line 151: `opp.match_score >= 50.0`
ApiMinScore == 50

\* d[k] = v on a dict
DictPut(d, k, v) == [x \in DOMAIN d \cup {k} |-> IF x = k THEN v ELSE d[x]]

\* run_portal_scan, lines 154-171: opportunities_cache[opp.id] = {...} for
\* every qualified opportunity; `found` maps the ids of the qualified
\* opportunities to their scores
CacheResults(cache, found) ==
    [x \in DOMAIN cache \cup DOMAIN found |->
        IF x \in DOMAIN found
        THEN [id |-> x, match_score |-> found[x]]
        ELSE cache[x]]

\* the tasks that are waiting while task i takes its last step
Others(i) == {k \in DOMAIN jobs : k # i /\ jobs[k].state = "running"}

\* a second of the wall clock passes
Tick ==
    /\ now < MaxNow
    /\ now' = now + 1
    /\ UNCHANGED <<pipelineVars, networkVars, extraVars>>

\* POST /api/scan-portals, lines 113-139
scan_portals ==
    /\ Len(jobs) < MaxJobs
    /\ LET job_id == <<"scan", now>>
       IN  /\ processing_status' =
                 DictPut(processing_status, job_id,
                         [status |-> "scanning", started_at |-> now])
           /\ jobs' = Append(jobs, [kind |-> "scan", job_id |-> job_id,
                                    opportunity_id |-> None, state |-> "running",
                                    found |-> <<>>, overlap |-> {}])
    /\ UNCHANGED <<now, pipelineVars, networkVars, schedVars, scoreVars,
                   learnVars, docVars,
                   opportunities_cache>>

\* run_portal_scan, lines 143-180: the scan and the scoring have returned;
\* what qualified is cached and the job is completed
run_portal_scan ==
    \E i \in DOMAIN jobs :
        /\ jobs[i].kind = "scan"
        /\ jobs[i].state = "running"
        /\ \E S \in SUBSET Ids : \E sc \in [S -> Scores] :
              LET qualified_ids == {x \in S : sc[x] >= ApiMinScore}
                  found == [x \in qualified_ids |-> sc[x]]
              IN  /\ opportunities_cache' = CacheResults(opportunities_cache, found)
                  /\ processing_status' =
                        DictPut(processing_status, jobs[i].job_id,
                                [status |-> "completed",
                                 started_at |->
                                     processing_status[jobs[i].job_id].started_at,
                                 opportunities_found |-> Cardinality(qualified_ids)])
                  /\ jobs' = [jobs EXCEPT ![i].state = "completed",
                                          ![i].found = found,
                                          ![i].overlap = Others(i)]
        /\ UNCHANGED <<now, pipelineVars, networkVars, schedVars, scoreVars,
                       learnVars, docVars>>

\* run_portal_scan, lines 182-188: the scan or the scoring raised
run_portal_scan_fails ==
    \E i \in DOMAIN jobs :
        /\ jobs[i].kind = "scan"
        /\ jobs[i].state = "running"
        /\ processing_status' =
              DictPut(processing_status, jobs[i].job_id,
                      [status |-> "failed",
                       started_at |-> processing_status[jobs[i].job_id].started_at])
        /\ jobs' = [jobs EXCEPT ![i].state = "failed", ![i].overlap = Others(i)]
        /\ UNCHANGED <<now, pipelineVars, networkVars, schedVars, scoreVars,
                       learnVars, docVars,
                       opportunities_cache>>

\* POST /api/process-opportunity, lines 231-250; the endpoint does not look
\* the id up in opportunities_cache
process_opportunity ==
    /\ Len(jobs) < MaxJobs
    /\ \E id \in Ids :
          LET job_id == <<"process", id, now>>
          IN  /\ processing_status' =
                    DictPut(processing_status, job_id,
                            [status |-> "processing", opportunity_id |-> id,
                             started_at |-> now])
              /\ jobs' = Append(jobs, [kind |-> "process", job_id |-> job_id,
                                       opportunity_id |-> id, state |-> "running",
                                       found |-> <<>>, overlap |-> {}])
    /\ UNCHANGED <<now, pipelineVars, networkVars, schedVars, scoreVars,
                   learnVars, docVars,
                   opportunities_cache>>

\* run_opportunity_processing, lines 254-291: process_solicitation has
\* returned a package with n line items; it is stored under the key
\* "processed_data" of the cached opportunity and the job is completed.
\* When another job of the same job_id has failed meanwhile, the status has
\* no "started_at", line 288 raises KeyError after the data is stored, and
\* the handler of lines 293-299 marks the job failed.
run_opportunity_processing ==
    \E i \in DOMAIN jobs, n \in {0, 1} :
        /\ jobs[i].kind = "process"
        /\ jobs[i].state = "running"
        /\ jobs[i].opportunity_id \in DOMAIN opportunities_cache
        /\ opportunities_cache' =
              [opportunities_cache EXCEPT
                  ![jobs[i].opportunity_id] =
                      DictPut(@, "processed_data", [line_items |-> n])]
        /\ IF "started_at" \in DOMAIN processing_status[jobs[i].job_id]
           THEN /\ processing_status' =
                     DictPut(processing_status, jobs[i].job_id,
                             [status |-> "completed",
                              opportunity_id |-> jobs[i].opportunity_id,
                              started_at |->
                                  processing_status[jobs[i].job_id].started_at,
                              line_items_extracted |-> n])
                /\ jobs' = [jobs EXCEPT ![i].state = "completed",
                                        ![i].overlap = Others(i)]
           ELSE /\ processing_status' =
                     DictPut(processing_status, jobs[i].job_id,
                             [status |-> "failed",
                              opportunity_id |-> jobs[i].opportunity_id])
                /\ jobs' = [jobs EXCEPT ![i].state = "failed",
                                        ![i].overlap = Others(i)]
        /\ UNCHANGED <<now, pipelineVars, networkVars, schedVars, scoreVars,
                       learnVars, docVars>>

\* run_opportunity_processing, lines 293-299: process_solicitation raised,
\* or opportunities_cache[request.opportunity_id] raised KeyError
run_opportunity_processing_fails ==
    \E i \in DOMAIN jobs :
        /\ jobs[i].kind = "process"
        /\ jobs[i].state = "running"
        /\ processing_status' =
              DictPut(processing_status, jobs[i].job_id,
                      [status |-> "failed",
                       opportunity_id |-> jobs[i].opportunity_id])
        /\ jobs' = [jobs EXCEPT ![i].state = "failed", ![i].overlap = Others(i)]
        /\ UNCHANGED <<now, pipelineVars, networkVars, schedVars, scoreVars,
                       learnVars, docVars,
                       opportunities_cache>>

NextApi ==
    \/ Tick
    \/ scan_portals
    \/ run_portal_scan
    \/ run_portal_scan_fails
    \/ process_opportunity
    \/ run_opportunity_processing
    \/ run_opportunity_processing_fails

SpecApi == Init /\ [][NextApi]_vars

---------------------------------------------------------------------------
(* The orchestrator and its database file: a write that fails, and the     *)
(* process starting again.                                                 *)

\* _process_opportunity, line 638: sqlite3 raises inside
\* _save_opportunity_record (lines 678-697 have no handler), the
\* transaction is rolled back, line 639 is not reached, the exception
\* leaves run_pipeline_cycle and run_continuous logs it at lines 726-728
ProcessSaveFails ==
    /\ pc = "process"
    /\ record # <<>>
    /\ record[1].stage = "rfq_generated"
    /\ save_failed' = DictPut(save_failed, record[1].id, now)
    /\ record' = <<>>
    /\ queue' = <<>>
    /\ pc' = "idle"
    /\ UNCHANGED <<now, scored, qualified, pipeline, db, win_loss_history>>
    /\ UNCHANGED <<networkVars, extraVars>>

\* the process is stopped between two cycles and
\* WinScopeMasterOrchestrator.__init__ runs again, lines 482-506:
\* self.pipeline = {} and _init_database(), whose CREATE TABLE IF NOT EXISTS
\* leaves the rows of the file as they are; no row is read back
Restart ==
    /\ pc = "idle"
    /\ pipeline # <<>>
    /\ pipeline' = <<>>
    /\ UNCHANGED <<now, pc, scored, qualified, queue, record, db,
                   win_loss_history, save_failed>>
    /\ UNCHANGED <<networkVars, extraVars>>

NextStore ==
    \/ CycleStart
    \/ ProcessCreate
    \/ ProcessExtract
    \/ ProcessRfq
    \/ ProcessSave
    \/ ProcessSaveFails
    \/ ProcessDone
    \/ GenerateProposals
    \/ Restart

SpecStore == Init /\ [][NextStore]_vars

---------------------------------------------------------------------------
(* OpportunityScorer.score_opportunity.  A factor is a float between 0 and *)
(* 1 in the code and a number of thousandths here; a score is a number of  *)
(* hundredths of a point.                                                  *)

\* the factor 1.0, in thousandths
FactorOne == 1000

\* company_profile["naics_codes"]
CompanyNaics == {"333249", "541330", "541512", "541715", "237130", "333922"}

\* company_profile["sweet_spot_value"]
MinSweet == 50000

MaxSweet == 500000

\* the weights of the five factors, lines 344-360
NaicsWeight == 25

ValueWeight == 20

GeoWeight == 15

SetasideWeight == 15

KeywordWeight == 25

\* code[:4]
First4(code) ==
    CASE code = "333249" -> "3332"
      [] code = "541330" -> "5413"
      [] code = "541512" -> "5415"
      [] code = "541715" -> "5417"
      [] code = "237130" -> "2371"
      [] code = "333922" -> "3339"
      [] code = "541340" -> "5413"
      [] code = "111110" -> "1111"
      [] code = "" -> ""

\* the NAICS lists of the opportunities that are scored: none, a code of the
\* profile, a code of the same industry group, an unrelated code, the empty
\* code and the None that _parse_sam_opportunity can produce
NaicsLists == {<<>>, <<"541330">>, <<"541340">>, <<"111110">>, <<"">>, <<None>>}

\* estimated_value: <<>> is None, <<v>> a number of dollars
EstimatedValues ==
    {<<>>, <<0 - 1>>, <<0>>, <<(MinSweet * 3) \div 10>>, <<MinSweet \div 2>>,
     <<(MinSweet * 8) \div 10>>, <<MinSweet>>, <<MaxSweet>>,
     <<MaxSweet + MaxSweet>>, <<MaxSweet * 10>>}

Locations == {None, "", "California", "Miami, FL", "CONUS", "Texas"}

SetAsides == {None, "Women-Owned Small Business", "Small Business",
              "Full and Open", "8(a)"}

\* what the call of the language model gives _score_keywords: `ok` is
\* whether messages.create returned, `number` whether float(score_text)
\* parsed, `nan` whether it parsed to NaN, `value` the number in thousandths
KeywordResponses ==
    {[ok |-> FALSE, number |-> FALSE, nan |-> FALSE, value |-> 0],
     [ok |-> TRUE, number |-> FALSE, nan |-> FALSE, value |-> 0],
     [ok |-> TRUE, number |-> TRUE, nan |-> TRUE, value |-> 0]}
    \cup {[ok |-> TRUE, number |-> TRUE, nan |-> FALSE, value |-> v]
             : v \in {0 - 500, 0, 123, 500, FactorOne, FactorOne + 500}}

\* the strings of `marks` that are substrings of text.upper()
Found(text, marks) ==
    marks \cap
      (CASE text = "California" -> {"CA"}
         [] text = "Miami, FL" -> {"MI"}
         [] text = "CONUS" -> {"CONUS"}
         [] text = "Texas" -> {}
         [] text = "Women-Owned Small Business" -> {"WOMEN", "SMALL BUSINESS"}
         [] text = "Small Business" -> {"SMALL BUSINESS"}
         [] text = "Full and Open" -> {"FULL AND OPEN"}
         [] text = "8(a)" -> {})

Max(a, b) == IF a >= b THEN a ELSE b

Min(a, b) == IF a =< b THEN a ELSE b

\* _score_naics_match raises: the list is not empty, no code of it is a
\* code of the profile, and None[:4] is a TypeError
naics_raises(opp_naics) ==
    /\ opp_naics # <<>>
    /\ CompanyNaics \cap Range(opp_naics) = {}
    /\ None \in Range(opp_naics)

\* OpportunityScorer._score_naics_match, lines 364-381
score_naics_match(opp_naics) ==
    IF opp_naics = <<>> THEN FactorOne \div 2
    ELSE IF CompanyNaics \cap Range(opp_naics) # {} THEN FactorOne
    ELSE IF \E cn \in CompanyNaics, on \in Range(opp_naics) :
               First4(cn) = First4(on)
         THEN (FactorOne * 7) \div 10
         ELSE (FactorOne * 2) \div 10

\* _score_contract_value with the two ends of the range left out of it
score_contract_value_open(value) ==
    IF value = <<>> THEN FactorOne \div 2
    ELSE IF MinSweet < value[1] /\ value[1] < MaxSweet THEN FactorOne
    ELSE IF value[1] < MinSweet
         THEN Max((FactorOne * 3) \div 10, (value[1] * FactorOne) \div MinSweet)
         ELSE Max((FactorOne * 2) \div 10, (MaxSweet * FactorOne) \div value[1])

\* OpportunityScorer._score_contract_value, lines 383-398
score_contract_value(value) ==
    IF value = <<>> THEN FactorOne \div 2
    ELSE IF MinSweet =< value[1] /\ value[1] =< MaxSweet THEN FactorOne
    ELSE IF value[1] < MinSweet
         THEN Max((FactorOne * 3) \div 10, (value[1] * FactorOne) \div MinSweet)
         ELSE Max((FactorOne * 2) \div 10, (MaxSweet * FactorOne) \div value[1])

\* OpportunityScorer._score_geography, lines 400-412
score_geography(location) ==
    IF location \in {None, ""} THEN FactorOne \div 2
    ELSE IF Found(location, {"CA", "MI"}) # {} THEN FactorOne
    ELSE IF Found(location, {"CONUS", "NATIONWIDE"}) # {}
         THEN (FactorOne * 7) \div 10
         ELSE (FactorOne * 3) \div 10

\* OpportunityScorer._score_setaside, lines 414-433
score_setaside(setaside) ==
    IF setaside \in {None, ""} THEN FactorOne \div 2
    ELSE IF Found(setaside, {"MINORITY", "WOMEN", "MBE", "WBE", "WOSB"}) # {}
         THEN FactorOne
    ELSE IF Found(setaside, {"SMALL BUSINESS", "SB", "SDVOSB"}) # {}
         THEN (FactorOne * 8) \div 10
    ELSE IF Found(setaside, {"UNRESTRICTED", "FULL AND OPEN"}) # {}
         THEN (FactorOne * 4) \div 10
         ELSE FactorOne \div 2

\* OpportunityScorer._score_keywords, lines 435-468: max(0.0, min(1.0,
\* score)) of the number the model answered (1.0 for NaN, as min and max
\* compare it), 0.5 when the call or float() raised
score_keywords(response) ==
    IF response.ok /\ response.number
    THEN (IF response.nan THEN FactorOne
          ELSE Max(0, Min(FactorOne, response.value)))
    ELSE FactorOne \div 2

\* round(score, 2) of a score given in thousandths of a point, in
\* hundredths: to the nearest, a tie to the even one
Round2(t) ==
    LET q == t \div 10
        r == t % 10
    IN  IF r < 5 THEN q
        ELSE IF r > 5 THEN q + 1
        ELSE IF q % 2 = 0 THEN q ELSE q + 1

\* the runs of score_opportunity on one opportunity
MaxRuns == 2

\* score_opportunity with 30 points for the keyword factor
score_opportunity_kw30(opp) ==
    Round2((score_naics_match(opp.naics_codes) * NaicsWeight
            + score_contract_value(opp.estimated_value) * ValueWeight
            + score_geography(opp.location) * GeoWeight
            + score_setaside(opp.set_aside) * SetasideWeight
            + score_keywords(opp.response) * (KeywordWeight + 5)))

\* score_opportunity with the clock added to the score
score_opportunity_clock(opp) ==
    Round2(score_naics_match(opp.naics_codes) * NaicsWeight
            + score_contract_value(opp.estimated_value) * ValueWeight
            + score_geography(opp.location) * GeoWeight
            + score_setaside(opp.set_aside) * SetasideWeight
            + score_keywords(opp.response) * KeywordWeight) + now

\* OpportunityScorer.score_opportunity, lines 335-362
score_opportunity(opp) ==
    Round2((score_naics_match(opp.naics_codes) * NaicsWeight
            + score_contract_value(opp.estimated_value) * ValueWeight
            + score_geography(opp.location) * GeoWeight
            + score_setaside(opp.set_aside) * SetasideWeight
            + score_keywords(opp.response) * KeywordWeight))

\* an opportunity is about to be scored; `response` is what the language
\* model will answer for it
InitScore ==
    /\ now = 0
    /\ PipelineInit
    /\ NetworkInit("")
    /\ RestInit
    /\ calls = <<>>
    /\ opportunities_cache = <<>>
    /\ processing_status = <<>>
    /\ jobs = <<>>
    /\ \E n \in NaicsLists, v \in EstimatedValues, l \in Locations,
          a \in SetAsides, r \in KeywordResponses :
          sc_opp = <<[naics_codes |-> n, estimated_value |-> v, location |-> l,
                      set_aside |-> a, response |-> r]>>
    /\ sc_score = <<>>

\* opp.match_score = await self.scorer.score_opportunity(opp), line 779, or
\* the exception it raises
ScoreOpportunity ==
    /\ sc_opp # <<>>
    /\ Len(sc_score) < MaxRuns
    /\ sc_score' = Append(sc_score,
          IF naics_raises(sc_opp[1].naics_codes)
          THEN [raised |-> TRUE, match_score |-> 0]
          ELSE [raised |-> FALSE, match_score |-> score_opportunity(sc_opp[1])])
    /\ UNCHANGED <<now, pipelineVars, networkVars, schedVars, apiVars,
                   learnVars, docVars,
                   sc_opp>>

NextScore ==
    \/ ScoreOpportunity
    \/ Tick

SpecScore == InitScore /\ [][NextScore]_vars

---------------------------------------------------------------------------
(* The ranking of score_opportunities on opportunities that carry their    *)
(* scores.                                                                 *)

\* posted_date of an opportunity, as a day number
PostedDates == {0, 1}

\* scored opportunities of the three portals
RankCandidates ==
    [source_portal : PortalNames, posted_date : PostedDates,
     match_score : {MinMatchScore, MinMatchScore + 1}]

\* the position of a portal name in the order of Python's str comparison
NameRank(p) ==
    CASE p = "California eProcure" -> 1
      [] p = "DIBBS Marketplace" -> 2
      [] p = "SAM.gov" -> 3

\* gather has returned the scored opportunities, one portal each at most,
\* in the order they were handed to it
InitRank ==
    /\ now = 0
    /\ PipelineInit
    /\ npc = "scored"
    /\ today = 1
    /\ fetched = <<>>
    /\ all_opportunities = <<>>
    /\ unique_opportunities \in
          {q \in SeqsUpTo(RankCandidates, MaxBatch) :
              \A i, j \in DOMAIN q :
                  i # j => q[i].source_portal # q[j].source_portal}
    /\ ingested = {}
    /\ portals = [p \in PortalNames |-> PortalConfig(p, "")]
    /\ tasks = <<>>
    /\ errors = <<>>
    /\ opportunities = <<>>
    /\ attempts = [p \in PortalNames |-> <<>>]
    /\ ExtraInit

\* score_opportunities, line 785: scored.sort(key=lambda x: x.match_score,
\* reverse=True)
Rank ==
    /\ npc = "scored"
    /\ opportunities' = score_opportunities(unique_opportunities)
    /\ npc' = "ranked"
    /\ UNCHANGED <<now, pipelineVars, extraVars, attempts, today, fetched,
                   all_opportunities, unique_opportunities, ingested, portals,
                   tasks, errors>>

NextRank == Rank

SpecRank == InitRank /\ [][NextRank]_vars

---------------------------------------------------------------------------
(* run_pipeline_cycle on a discovery that returns more opportunities than  *)
(* max_concurrent_processing.                                              *)

\* portal and solicitation number of the opportunities a wide discovery
\* returns, all of different ids
WideRefs ==
    <<<<"SAM.gov", "AB-100">>,
      <<"California eProcure", "AB-100">>,
      <<"California eProcure", "CA-20251201-0">>,
      <<"California eProcure", "CA-20251201-1">>,
      <<"California eProcure", "CA-20251201-2">>,
      <<"California eProcure", "CA-20251202-0">>>>

\* Steps 1 and 2 of run_pipeline_cycle, as CycleStart, on the first n of
\* these opportunities, each just below or just above min_match_score
CycleStartWide ==
    /\ pc = "idle"
    /\ now < MaxNow
    /\ \E n \in 0..(MaxConcurrentProcessing + 1) :
          \E sc \in [1..n -> {MinMatchScore - 1, MinMatchScore + 1}] :
              LET raw == [i \in 1..n |->
                            Opportunity(WideRefs[i][1], WideRefs[i][2], sc[i])]
                  s == score_opportunities(deduplicate(raw))
                  q == qualify_opportunities(s)
              IN  /\ scored' = s
                  /\ qualified' = q
                  /\ queue' = FirstN(q, MaxConcurrentProcessing)
    /\ now' = now + 1
    /\ pc' = "process"
    /\ UNCHANGED <<record, pipeline, db, win_loss_history>>
    /\ UNCHANGED <<save_failed, networkVars, extraVars>>

NextLimit ==
    \/ CycleStartWide
    \/ ProcessCreate
    \/ ProcessExtract
    \/ ProcessRfq
    \/ ProcessSave
    \/ ProcessDone
    \/ GenerateProposals

SpecLimit == Init /\ [][NextLimit]_vars

---------------------------------------------------------------------------
(* Properties of the order of a discovery cycle and of the scheduling.     *)

\* C21: scoring starts (the step from "scraped" that scores, stored or
\* raised) only when every fetch of the cycle has returned or raised and
\* unique_opportunities is the deduplicated list of everything they returned
C21_ScoringAfterFetchAndDedup ==
    [][(npc = "scraped" /\ npc' = "sleep")
          => /\ \A p \in DOMAIN tasks : tasks[p].state \in {"returned", "raised"}
             /\ all_opportunities = Flatten(tasks)
             /\ unique_opportunities = deduplicate(all_opportunities)]_vars

\* a cycle has scored and stored what one portal returned while the fetch
\* of another portal had failed
C21_Witness ==
    /\ npc = "sleep"
    /\ opportunities # <<>>
    /\ \E p \in DOMAIN tasks : tasks[p].state = "raised"
    /\ \E p \in DOMAIN tasks : tasks[p].state = "returned" /\ tasks[p].batch # <<>>

\* the fetches of portal p that have resolved in the cycle of tick t
AttemptsAt(p, t) == {i \in DOMAIN attempts[p] : attempts[p][i].at = t}

\* C22: a cycle starts a fetch for exactly the portals that are due when it
\* starts; while the cycle runs no fetch is added, none that has resolved
\* (failed or not) is started again, and no portal has more than one
\* resolved fetch in the cycle
C22_OneFetchPerDueSource ==
    [][/\ (npc = "idle" /\ npc' = "gather")
            => DOMAIN tasks' = {p \in PortalNames : should_scrape(portals[p], now)}
       /\ (npc # "idle" /\ npc' # "idle")
            => /\ DOMAIN tasks' = DOMAIN tasks
               /\ \A p \in DOMAIN tasks :
                     tasks[p].state # "running" => tasks'[p] = tasks[p]
       /\ \A p \in PortalNames :
             Cardinality(AttemptsAt(p, now)')
                 <= (IF p \in DOMAIN tasks' THEN 1 ELSE 0)]_vars

\* a later cycle in which one portal is not due and is not fetched, and the
\* fetch of a portal that is due has failed
C22_Witness ==
    /\ npc = "gather"
    /\ now >= 1
    /\ PortalNames \ DOMAIN tasks # {}
    /\ \A p \in PortalNames \ DOMAIN tasks : ~ should_scrape(portals[p], now)
    /\ \E p \in DOMAIN tasks : tasks[p].state = "raised"

\* C23: every recorded call of should_scrape returned TRUE exactly when the
\* portal had never been scraped or the hours since its last scrape are at
\* least the effective interval: half the base interval for an average
\* yield above 5, twice the base interval for one below 1, the base interval
\* otherwise (1 and 5 included)
C23_DueIffIntervalElapsed ==
    \A i \in DOMAIN calls :
        LET cfg == portals[calls[i].portal]
            base == cfg.scrape_frequency_hours
            yield == cfg.avg_opportunities_per_scrape
            elapsed == (calls[i].at - cfg.last_scrape) * TickHours
        IN  calls[i].result
              <=> \/ cfg.last_scrape = Never
                  \/ yield > 5 /\ 2 * elapsed >= base
                  \/ yield < 1 /\ elapsed >= 2 * base
                  \/ yield >= 1 /\ yield =< 5 /\ elapsed >= base

\* should_scrape was asked about a portal whose average yield is exactly 5,
\* one tick before its base interval had elapsed, and answered no
C23_Witness ==
    \E i \in DOMAIN calls :
        LET cfg == portals[calls[i].portal]
        IN  /\ cfg.last_scrape # Never
            /\ cfg.avg_opportunities_per_scrape = 5
            /\ (calls[i].at - cfg.last_scrape) * TickHours
                  = cfg.scrape_frequency_hours - TickHours
            /\ cfg.scrape_frequency_hours > TickHours
            /\ ~ calls[i].result

\* C24: once a fetch has resolved (returned its listings, returned early or
\* raised), the last_scrape of its portal is the time of that attempt and
\* avg_opportunities_per_scrape is the number of opportunities it got
C24_EveryAttemptRecorded ==
    \A p \in DOMAIN tasks :
        tasks[p].state \in {"returned", "raised"}
            => /\ portals[p].last_scrape = now
               /\ portals[p].avg_opportunities_per_scrape = Len(tasks[p].batch)

\* C25: when a cycle is about to start, a portal whose fetch failed in each
\* of the last two cycles is not due before scrape_frequency_hours have
\* passed since the last of them
C25_FailedSourceWaitsBaseInterval ==
    \A p \in PortalNames :
        LET n == Len(attempts[p])
        IN  (/\ npc = "idle"
             /\ n >= 2
             /\ attempts[p][n].failed
             /\ attempts[p][n - 1].failed
             /\ attempts[p][n].at = attempts[p][n - 1].at + 1
             /\ should_scrape(portals[p], now))
                => (now - attempts[p][n].at) * TickHours
                       >= portals[p].scrape_frequency_hours

---------------------------------------------------------------------------
(* Properties of the records kept by the API and by the orchestrator.      *)

\* tasks i and j were both waiting at some moment
Overlapped(i, j) == j \in jobs[i].overlap \/ i \in jobs[j].overlap

\* C27: when a processing job that stored the extracted data of X and a
\* scan job that found X again have run at the same time and both have
\* completed, the cached record of X holds the extracted data and a score
\* a scan gave it
C27_NoLostUpdate ==
    \A i, j \in DOMAIN jobs :
        (/\ jobs[i].kind = "process" /\ jobs[i].state = "completed"
         /\ jobs[j].kind = "scan" /\ jobs[j].state = "completed"
         /\ jobs[i].opportunity_id \in DOMAIN jobs[j].found
         /\ Overlapped(i, j)
         /\ \A k \in DOMAIN jobs : jobs[k].state # "running")
            => LET X == jobs[i].opportunity_id
               IN  /\ X \in DOMAIN opportunities_cache
                   /\ "processed_data" \in DOMAIN opportunities_cache[X]
                   /\ \E k \in DOMAIN jobs :
                         /\ jobs[k].kind = "scan"
                         /\ X \in DOMAIN jobs[k].found
                         /\ opportunities_cache[X].match_score = jobs[k].found[X]

\* C28: an identity whose write failed is in self.pipeline only if a row of
\* it is in the database, and by the end of the cycle after the one in
\* which the write failed the write has been attempted again
C28_FailedWriteRetried ==
    \A id \in DOMAIN save_failed :
        /\ id \in DOMAIN pipeline => \E row \in db : row.id = id
        /\ ~ (pc = "idle" /\ now > save_failed[id])

\* C29: every row saved in the database, before a restart or after it, is
\* returned by _get_opportunities_by_stage for the stage it was saved with
C29_RecordsSurviveRestart ==
    \A row \in db : row.id \in get_opportunities_by_stage(row.stage)

---------------------------------------------------------------------------
(* Properties of the score.                                                *)

\* C30: every score that score_opportunity returns is the sum, rounded to
\* hundredths, of five factors between 0 and 1 weighted 25 (NAICS), 20
\* (value), 15 (geography), 15 (set-aside) and 25 (keywords); the weights
\* add up to 100 and the score is between 0 and 100
C30_WeightedSumWithinRange ==
    (sc_score # <<>> /\ ~ sc_score[1].raised)
        => LET opp == sc_opp[1]
               f == <<score_naics_match(opp.naics_codes),
                      score_contract_value(opp.estimated_value),
                      score_geography(opp.location),
                      score_setaside(opp.set_aside),
                      score_keywords(opp.response)>>
           IN  /\ \A i \in 1..5 : 0 =< f[i] /\ f[i] =< FactorOne
               /\ sc_score[1].match_score
                     = Round2(f[1] * 25 + f[2] * 20 + f[3] * 15 + f[4] * 15
                                + f[5] * 25)
               /\ NaicsWeight + ValueWeight + GeoWeight + SetasideWeight
                     + KeywordWeight = 100
               /\ 0 =< sc_score[1].match_score
               /\ sc_score[1].match_score =< 100 * 100

\* an opportunity whose five factors are all 1.0 was scored 100
C30_Witness ==
    /\ sc_score # <<>>
    /\ ~ sc_score[1].raised
    /\ sc_score[1].match_score = 100 * 100
    /\ score_keywords(sc_opp[1].response) = FactorOne
    /\ score_contract_value(sc_opp[1].estimated_value) = FactorOne

\* the language model's answer cannot be used as a number: the call raised,
\* float() raised, or float() gave NaN
Unusable(response) == ~ response.ok \/ ~ response.number \/ response.nan

\* C31: whatever the language model's call did, an opportunity whose other
\* factors can be computed gets a score, its keyword factor is between 0
\* and 1, and the factor is 0.5 whenever the call failed or its answer
\* cannot be used
C31_SemanticFailureIsNeutral ==
    \A i \in DOMAIN sc_score :
        ~ naics_raises(sc_opp[1].naics_codes)
            => /\ ~ sc_score[i].raised
               /\ 0 =< score_keywords(sc_opp[1].response)
               /\ score_keywords(sc_opp[1].response) =< FactorOne
               /\ Unusable(sc_opp[1].response)
                     => 2 * score_keywords(sc_opp[1].response) = FactorOne

\* C32: in the ranked list, of two opportunities with the same score the
\* one posted earlier comes first, and of two posted at the same time the
\* one whose source name is smaller comes first
C32_TiesByPostedThenSource ==
    npc = "ranked"
        => \A i, j \in DOMAIN opportunities :
              (i < j /\ opportunities[i].match_score = opportunities[j].match_score)
                  => \/ opportunities[i].posted_date < opportunities[j].posted_date
                     \/ /\ opportunities[i].posted_date = opportunities[j].posted_date
                        /\ NameRank(opportunities[i].source_portal)
                              =< NameRank(opportunities[j].source_portal)

C34_ValueFactor ==
    \A i \in DOMAIN sc_score :
        ~ sc_score[i].raised
            => LET value == sc_opp[1].estimated_value
                   f == score_contract_value(value)
               IN  /\ value = <<>> => 2 * f = FactorOne
                   /\ (FactorOne * 2) \div 10 =< f /\ f =< FactorOne
                   /\ value # <<>> =>
                        LET v == value[1]
                        IN  /\ (50000 =< v /\ v =< 500000) => f = FactorOne
                            /\ v < 50000
                                 => /\ f = Max((FactorOne * 3) \div 10,
                                               (v * FactorOne) \div 50000)
                                    /\ f >= (FactorOne * 3) \div 10
                            /\ v > 500000
                                 => f = Max((FactorOne * 2) \div 10,
                                            (500000 * FactorOne) \div v)
                            /\ \A other \in EstimatedValues \ {<<>>} :
                                  (\/ other[1] =< v /\ v < 50000
                                   \/ 500000 < v /\ v =< other[1])
                                      => score_contract_value(other) =< f

\* an opportunity whose value is exactly the lower end of the range was
\* scored
C34_Witness ==
    /\ sc_score # <<>>
    /\ ~ sc_score[1].raised
    /\ sc_opp[1].estimated_value = <<MinSweet>>

\* C35: every opportunity gets its NAICS factor: 0.5 when it declares no
\* code (no code at all, or only a missing or empty one), 1.0 when one of
\* its codes is a code of the profile, 0.7 when none is but one has the
\* first four digits of a code of the profile, 0.2 otherwise
C35_NaicsFactor ==
    \A i \in DOMAIN sc_score :
        LET codes == sc_opp[1].naics_codes
        IN  /\ ~ sc_score[i].raised
            /\ score_naics_match(codes)
                  = (IF Range(codes) \subseteq {"", None} THEN FactorOne \div 2
                     ELSE IF Range(codes) \cap CompanyNaics # {} THEN FactorOne
                     ELSE IF \E cn \in CompanyNaics, on \in Range(codes) :
                                First4(cn) = First4(on)
                          THEN (FactorOne * 7) \div 10
                          ELSE (FactorOne * 2) \div 10)

---------------------------------------------------------------------------
(* Properties of what a pipeline cycle leaves behind.                      *)

\* C36: when the processing loop of a cycle has run out, every opportunity
\* that qualified in the cycle has its record in self.pipeline or is still
\* waiting to be processed
C36_QualifiedGetsRecord ==
    pc = "proposals"
        => \A i \in DOMAIN qualified :
              \/ qualified[i].id \in DOMAIN pipeline
              \/ \E k \in DOMAIN queue : queue[k].id = qualified[i].id


---------------------------------------------------------------------------
(* LearningEngine.get_automation_success_rate, on a table the model fills. *)

\* the -30 days of the WHERE clause
WindowDays == 30

MetricStages == {"document_extraction", "rfq_generation"}

\* a row of automation_metrics: the columns the query reads, created_at as
\* the number of days before today
MetricRows ==
    [stage : MetricStages, success : BOOLEAN,
     age_days : {0, WindowDays, WindowDays + 1}]

\* created_at > date('now', '-30 days'): a timestamp "D hh:mm:ss" is compared
\* as text with the date "D0" of thirty days ago, and it is greater on every
\* day D >= D0
InWindow(row) == row.age_days <= WindowDays

\* the rows the WHERE clause selects, as indices into the table
Selected(rows, stage) ==
    {i \in DOMAIN rows : rows[i].stage = stage /\ InWindow(rows[i])}

\* COUNT(CASE WHEN success = 1 THEN 1 END)
Successes(rows, stage) ==
    Cardinality({i \in Selected(rows, stage) : rows[i].success})

\* get_automation_success_rate(stage), as the fraction num/den.  The query
\* yields NULL when COUNT(*) is 0 and successes * 1.0 / COUNT(*) otherwise;
\* `result[0] if result and result[0] else 1.0` gives 1.0 for NULL and for 0.0
get_automation_success_rate(rows, stage) ==
    LET total == Cardinality(Selected(rows, stage))
        good == Successes(rows, stage)
    IN  IF total = 0 \/ good = 0
        THEN [num |-> 1, den |-> 1]
        ELSE [num |-> good, den |-> total]

InitLearn ==
    /\ now = 0
    /\ PipelineInit
    /\ NetworkInit("")
    /\ calls = <<>>
    /\ opportunities_cache = <<>>
    /\ processing_status = <<>>
    /\ jobs = <<>>
    /\ sc_opp = <<>>
    /\ sc_score = <<>>
    /\ automation_metrics \in SeqsUpTo(MetricRows, MaxRows)
    /\ success_rate = <<>>
    /\ files = <<>>
    /\ package = <<>>

\* one call of get_automation_success_rate
GetAutomationSuccessRate ==
    /\ success_rate = <<>>
    /\ \E stage \in MetricStages :
          success_rate' = <<[stage |-> stage,
                             rate |-> get_automation_success_rate(
                                          automation_metrics, stage)]>>
    /\ UNCHANGED <<now, pipelineVars, networkVars, schedVars, apiVars, scoreVars,
                   docVars, automation_metrics>>

NextLearn == GetAutomationSuccessRate

SpecLearn == InitLearn /\ [][NextLearn]_vars

---------------------------------------------------------------------------
(* DocumentIntelligenceEngine.process_solicitation.                        *)

MaxFiles == 2

\* str.lower() on a suffix
Lower(suffix) == IF suffix = ".PDF" THEN ".pdf" ELSE suffix

\* what extract_from_pdf returns under 'line_items' for a PDF: [] when no
\* table held an item or the extraction raised, the items found otherwise
LineItemLists == {<<>>, <<"PLC">>, <<"robot">>}

\* a downloaded file: its Path.suffix and the line items extract_from_pdf
\* would find in it
DownloadedFiles ==
    {f \in [suffix : {".pdf", ".PDF", ".docx"}, line_items : LineItemLists] :
        Lower(f.suffix) # ".pdf" => f.line_items = <<>>}

\* classify_line_item and estimate_pricing: the item comes back, annotated
Classified(item) == [description |-> item, item_type |-> "OTHER"]

RECURSIVE merge_line_items(_, _)
\* the loop of step 2, lines 654-668, as the final value of all_line_items:
\* `merged` tells whether extracted_data is non-empty.  The first PDF becomes
\* extracted_data as a whole; only the PDFs after it extend all_line_items
merge_line_items(fs, merged) ==
    IF fs = <<>>
    THEN <<>>
    ELSE IF Lower(Head(fs).suffix) = ".pdf"
         THEN (IF merged THEN Head(fs).line_items ELSE <<>>)
                  \o merge_line_items(Tail(fs), TRUE)
         ELSE merge_line_items(Tail(fs), merged)

\* process_solicitation, from the list download_package returned to the
\* SolicitationPackage
process_solicitation(fs) ==
    IF fs = <<>>
    THEN [line_items |-> <<>>, main_rfp_path |-> <<>>, attachments |-> <<>>]
    ELSE LET all_line_items == merge_line_items(fs, FALSE)
         IN  [line_items |-> [i \in DOMAIN all_line_items |->
                                  Classified(all_line_items[i])],
              main_rfp_path |-> <<fs[1]>>,
              attachments |-> Tail(fs)]

InitDoc ==
    /\ now = 0
    /\ PipelineInit
    /\ NetworkInit("")
    /\ calls = <<>>
    /\ opportunities_cache = <<>>
    /\ processing_status = <<>>
    /\ jobs = <<>>
    /\ sc_opp = <<>>
    /\ sc_score = <<>>
    /\ automation_metrics = <<>>
    /\ success_rate = <<>>
    /\ files \in SeqsUpTo(DownloadedFiles, MaxFiles)
    /\ package = <<>>

\* one call of process_solicitation
ProcessSolicitation ==
    /\ package = <<>>
    /\ package' = <<process_solicitation(files)>>
    /\ UNCHANGED <<now, pipelineVars, networkVars, schedVars, apiVars, scoreVars,
                   learnVars, files>>

NextDoc == ProcessSolicitation

SpecDoc == InitDoc /\ [][NextDoc]_vars

\* C37: when a pipeline cycle ends, every record that its proposal step took
\* from quotes_received to proposal_generated has the stage
\* proposal_generated in its row of the table opportunities
C37_ProposalStagePersisted ==
    [][(pc = "proposals" /\ pc' = "idle") =>
          \A id \in DOMAIN pipeline :
              (/\ pipeline[id].stage = "quotes_received"
               /\ pipeline'[id].stage = "proposal_generated")
              => \E row \in db' : row.id = id /\ row.stage = "proposal_generated"]_vars

\* C39: no two accepted scan or processing requests have the same job id, so
\* each job has a key of its own in processing_status
C39_JobIdsDistinct ==
    \A i, j \in DOMAIN jobs : i # j => jobs[i].job_id # jobs[j].job_id

\* C38: get_automation_success_rate(stage) returns the successful events of
\* the stage in the window divided by all its events in the window (so 0
\* when all of them failed), and 1 when the stage has no event in the window
C38_SuccessRateIsRatio ==
    success_rate # <<>> =>
        LET stage == success_rate[1].stage
            rate == success_rate[1].rate
            total == Cardinality(Selected(automation_metrics, stage))
            good == Successes(automation_metrics, stage)
        IN  /\ total = 0 => rate.num = rate.den
            /\ total > 0 => rate.num * total = good * rate.den

RECURSIVE PdfLineItems(_)
\* the line items of every PDF of a package, in the order of the files
PdfLineItems(fs) ==
    IF fs = <<>>
    THEN <<>>
    ELSE (IF Lower(Head(fs).suffix) = ".pdf" THEN Head(fs).line_items ELSE <<>>)
             \o PdfLineItems(Tail(fs))

\* C40: the package process_solicitation returns holds the line items of
\* every PDF that was downloaded, those of the first PDF included
C40_PackageHasAllLineItems ==
    package # <<>> =>
        [i \in DOMAIN package[1].line_items |->
            package[1].line_items[i].description] = PdfLineItems(files)

==========================================================================
